---- MODULE Spec2Model ----
(***************************************************************************)
(* AgriSmart DSS (src/AgriSmart-DSS.py): one run of the Streamlit script   *)
(* over the loaded table: validate_data, the cleaning statements, the      *)
(* "Generate Recommendations" handler with get_recommendations, and the    *)
(* crop-guidelines summary.                                                *)
(*                                                                         *)
(* Representation.                                                         *)
(*  - A text is a sequence of one-character strings; " " is whitespace and *)
(*    "." is the regular-expression wildcard. A column header is a         *)
(*    sequence of chunks, its name being one chunk and each padding blank  *)
(*    a " " chunk.                                                         *)
(*  - A cell is [isna, v]: isna is pandas' NaN (an empty CSV cell).        *)
(*  - 'farm to cold storage(km)' is carried in halves of a km (25 is       *)
(*    12.5 km), so that cost * km is exact; every other number is whole.   *)
(*  - The columns that get_recommendations only copies into its result     *)
(*    (hours, market, storage cost) are left out of the rows.              *)
(*  - The first, duplicated button block (lines 114-119) and the heatmap   *)
(*    of the report are outside the model.                                 *)
(***************************************************************************)
EXTENDS Integers, Sequences, FiniteSets

VARIABLES csv, df, pc, farm_location, crop, rec, out, guide, sortTie

vars == <<csv, df, pc, farm_location, crop, rec, out, guide, sortTie>>

\* Largest number of data rows of TEAM_DSS_Dataset.csv that is enumerated.
MaxRows == 2

-----------------------------------------------------------------------------
\* Python str methods, on texts.

Lc == <<"a","b","c","d","e","f","g","h","i","j","k","l","m",
        "n","o","p","q","r","s","t","u","v","w","x","y","z">>
Uc == <<"A","B","C","D","E","F","G","H","I","J","K","L","M",
        "N","O","P","Q","R","S","T","U","V","W","X","Y","Z">>

\* The lower-case letter of each upper-case letter, and the converse.
ToLower == [c \in {Uc[i] : i \in 1..Len(Uc)} |-> Lc[CHOOSE i \in 1..Len(Uc) : Uc[i] = c]]
ToUpper == [c \in {Lc[i] : i \in 1..Len(Lc)} |-> Uc[CHOOSE i \in 1..Len(Lc) : Lc[i] = c]]

IsUpper(c) == c \in DOMAIN ToLower
IsLower(c) == c \in DOMAIN ToUpper
IsCased(c) == IsUpper(c) \/ IsLower(c)

LowerChar(c) == IF IsUpper(c) THEN ToLower[c] ELSE c
UpperChar(c) == IF IsLower(c) THEN ToUpper[c] ELSE c

\* str.lower()
lower(s) == [i \in 1..Len(s) |-> LowerChar(s[i])]

\* str.title(): a cased character is upper-cased after an uncased one (or at
\* the start) and lower-cased after a cased one.
title(s) ==
    [i \in 1..Len(s) |->
        IF i = 1 \/ ~IsCased(s[i-1]) THEN UpperChar(s[i]) ELSE LowerChar(s[i])]

\* str.strip(): leading and trailing whitespace removed.
strip(s) ==
    LET keep == {i \in 1..Len(s) : s[i] # " "}
    IN  IF keep = {} THEN <<>>
        ELSE SubSeq(s, CHOOSE i \in keep : \A j \in keep : i <= j,
                       CHOOSE i \in keep : \A j \in keep : i >= j)

\* Series.str.contains(pat) with its default regex=True: re.search(pat, s).
\* Of the metacharacters only "." occurs in the texts of the model.
contains(s, pat) ==
    \E k \in 0..(Len(s) - Len(pat)) :
        \A j \in 1..Len(pat) : pat[j] = "." \/ pat[j] = s[k + j]

-----------------------------------------------------------------------------
\* Cells and the value None.

Val(x)   == [isna |-> FALSE, v |-> x]
NaNText  == [isna |-> TRUE, v |-> <<>>]
NaNNum   == [isna |-> TRUE, v |-> 0]
None     == [kind |-> "None"]

-----------------------------------------------------------------------------
\* validate_data

required_cols ==
    << <<"Farm Location">>, <<"Crop">>, <<"cold storage location">>,
       <<"optimal storage temp(degree c)">>,
       <<"spoilage rate at optimal temp(%)per week">> >>

KmCol   == <<"farm to cold storage(km)">>
CostCol == <<"transport cost for 20 ton load(#/km)">>

\* Variant of MissingOf: the headers are trimmed before the check.
MissingOfTrimmed(d) ==
    LET absent(col) == col \notin {strip(c) : c \in d.columns}
    IN  SelectSeq(required_cols, absent)

\* missing = [col for col in required_cols if col not in df.columns]
MissingOf(d) ==
    LET absent(col) == col \notin d.columns
    IN  SelectSeq(required_cols, absent)

\* df[required_cols].isnull().sum(), column by column
NullReport(d) ==
    LET n(f(_)) == Cardinality({i \in 1..Len(d.rows) : f(d.rows[i]).isna})
        Loc(r) == r.loc
        Crp(r) == r.crop
        Sto(r) == r.storage
        Tmp(r) == r.temp
        Spo(r) == r.spoil
    IN  <<n(Loc), n(Crp), n(Sto), n(Tmp), n(Spo)>>

\* Variant of validate_data: the error is rendered but True is returned.
validate_data_falls_through(d) ==
    [ok |-> TRUE,
     msgs |-> IF MissingOf(d) # <<>>
              THEN << [kind |-> "error", text |-> "Missing columns", arg |-> MissingOf(d)] >>
              ELSE <<>>]

\* validate_data(df): what it renders and what it returns.
validate_data(d) ==
    LET missing == MissingOf(d)
        report  == NullReport(d)
        total   == report[1] + report[2] + report[3] + report[4] + report[5]
    IN  IF missing # <<>>
        THEN [ok |-> FALSE,
              msgs |-> << [kind |-> "error", text |-> "Missing columns", arg |-> missing] >>]
        ELSE [ok |-> TRUE,
              msgs |-> IF total > 0
                       THEN << [kind |-> "warning", text |-> "Null values found",
                                arg |-> report] >>
                       ELSE <<>>]

-----------------------------------------------------------------------------
\* The cleaning statements (lines 46-51).

\* Variant of dropna_key: only 'Crop' is in the subset.
dropna_crop_only(rows) ==
    LET kept(r) == ~r.crop.isna
    IN  SelectSeq(rows, kept)

\* df.dropna(subset=['Crop', 'Farm Location'])
dropna_key(rows) ==
    LET kept(r) == ~r.crop.isna /\ ~r.loc.isna
    IN  SelectSeq(rows, kept)

\* df['Crop'].str.strip().str.title()
clean_crop(c) == IF c.isna THEN c ELSE Val(title(strip(c.v)))

\* df['Farm Location'].str.strip()
clean_loc(l) == IF l.isna THEN l ELSE Val(strip(l.v))

\* Lines 46-48 on the rows of the frame.
clean_rows(rows) ==
    LET kept == dropna_key(rows)
    IN  [i \in 1..Len(kept) |->
            [kept[i] EXCEPT !.crop = clean_crop(kept[i].crop),
                            !.loc  = clean_loc(kept[i].loc)]]

\* df.columns.str.strip()
clean_columns(cols) == {strip(c) : c \in cols}

-----------------------------------------------------------------------------
\* get_recommendations

Str(x) == [kind |-> "str", v |-> x]

\* The exact phase (lines 62-65): positions of the rows it keeps.
ExactRows(d, farm_loc, crop_type) ==
    {i \in 1..Len(d.rows) :
        /\ ~d.rows[i].loc.isna /\ ~d.rows[i].crop.isna
        /\ lower(strip(d.rows[i].loc.v)) = lower(strip(farm_loc))
        /\ lower(strip(d.rows[i].crop.v)) = lower(strip(crop_type))}

\* The fallback phase (lines 69-72).
FuzzyRows(d, farm_loc, crop_type) ==
    {i \in 1..Len(d.rows) :
        /\ ~d.rows[i].loc.isna /\ ~d.rows[i].crop.isna
        /\ contains(lower(strip(d.rows[i].loc.v)), lower(strip(farm_loc)))
        /\ contains(lower(strip(d.rows[i].crop.v)), lower(strip(crop_type)))}

\* results, as line 74 sees it.
Results(d, farm_loc, crop_type) ==
    IF ExactRows(d, farm_loc, crop_type) = {}
    THEN FuzzyRows(d, farm_loc, crop_type)
    ELSE ExactRows(d, farm_loc, crop_type)

MinOf(S) == CHOOSE i \in S : \A j \in S : i <= j
MaxOf(S) == CHOOSE i \in S : \A j \in S : i >= j

\* results.sort_values('farm to cold storage(km)').iloc[0]: the position of
\* the row that comes first. NaN keys are sorted last, in their original
\* order. sort_values sorts with kind='quicksort', which is not stable: which
\* of several rows with the smallest key comes first is the sort's choice
\* (tie), fixed for a given installation.
Nearest(d, results, tie) ==
    LET known == {i \in results : ~d.rows[i].km.isna}
        least == {i \in known : \A j \in known : d.rows[i].km.v <= d.rows[j].km.v}
    IN  IF known = {} THEN MinOf(results)
        ELSE IF tie = "first" THEN MinOf(least) ELSE MaxOf(least)

\* int(x) of a number given in halves: truncation toward zero.
IntOfHalves(h) == IF h >= 0 THEN h \div 2 ELSE -((-h) \div 2)

\* Variant of TransportCost: round(cost * km), ties to even.
TransportCostRounded(cost, km) ==
    LET q == (cost * km) \div 2
    IN  IF (cost * km) % 2 = 0 \/ q % 2 = 0 THEN q ELSE q + 1

\* int(cost * km), the km in halves.
TransportCost(cost, km) == IntOfHalves(cost * km)

\* f"{n:,}": the groups of three digits, the most significant first.
RECURSIVE Thousands(_)
Thousands(n) == IF n < 1000 THEN <<n>> ELSE Append(Thousands(n \div 1000), n % 1000)

\* The statements of the try block that raise (lines 62-87):
\*   farm_loc.strip() on None (no location to select);
\*   a column that is not in the frame (KeyError);
\*   int() of NaN (ValueError), the product of a NaN cost or a NaN km.
Raises(d, farm_loc, crop_type, tie) ==
    \/ farm_loc = None
    \/ /\ Results(d, farm_loc.v, crop_type.v) # {}
       /\ \/ KmCol \notin d.columns
          \/ CostCol \notin d.columns
          \/ LET nearest == d.rows[Nearest(d, Results(d, farm_loc.v, crop_type.v), tie)]
             IN  nearest.cost.isna \/ nearest.km.isna

\* The dictionary of lines 76-87.
Projection(nearest) ==
    [kind |-> "dict",
     storage_name   |-> nearest.storage,
     storage_km     |-> nearest.km,
     optimal_temp   |-> nearest.temp,
     spoilage_rate  |-> nearest.spoil,
     transport_cost |-> [prefix |-> "N",
                         digits |-> Thousands(TransportCost(nearest.cost.v, nearest.km.v))]]

\* Variant of OnException: a value of its own for the failure.
OnExceptionDistinct == [kind |-> "EngineFailure"]

\* What the except clause returns (line 91).
OnException == None

\* get_recommendations(farm_loc, crop_type): the value returned and what
\* st.error renders on the way.
get_recommendations(d, farm_loc, crop_type, tie) ==
    IF Raises(d, farm_loc, crop_type, tie)
    THEN [ret |-> OnException,
          msgs |-> << [kind |-> "error", text |-> "Error in recommendation", arg |-> <<>>] >>]
    ELSE LET results == Results(d, farm_loc.v, crop_type.v)
         IN  IF results # {}
             THEN [ret |-> Projection(d.rows[Nearest(d, results, tie)]), msgs |-> <<>>]
             ELSE [ret |-> None, msgs |-> <<>>]

\* The handler's rendering of rec (lines 155-180).
Render(r) ==
    IF r = None
    THEN << [kind |-> "error", text |-> "No recommendations found", arg |-> <<>>] >>
    ELSE << [kind |-> "report", text |-> "DSS Analysis Report", arg |-> r] >>

-----------------------------------------------------------------------------
\* Crop guidelines (lines 200-234).

focus_crops ==
    << <<"T","o","m","a","t","o">>, <<"O","k","r","a">>,
       <<"C","a","b","b","a","g","e">>, <<"Y","a","m">>,
       <<"P","e","p","p","e","r">> >>

\* Variant of CropData: without the dropna of lines 207-210.
CropDataKeepNa(d, crop_name) ==
    LET kept(r) == /\ ~r.crop.isna
                   /\ lower(strip(r.crop.v)) = strip(lower(crop_name))
    IN  SelectSeq(d.rows, kept)

\* crop_data after the filter of line 206 and the dropna of lines 207-210.
CropData(d, crop_name) ==
    LET kept(r) == /\ ~r.crop.isna
                   /\ lower(strip(r.crop.v)) = strip(lower(crop_name))
                   /\ ~r.temp.isna /\ ~r.spoil.isna
    IN  SelectSeq(d.rows, kept)

RECURSIVE SumOf(_, _)
SumOf(rows, column) ==
    IF rows = <<>> THEN 0 ELSE Head(rows)[column].v + SumOf(Tail(rows), column)

\* f"{total / n:.1f}": the mean in tenths, rounded to nearest, ties to even.
\* (The quotient of whole numbers by n <= 4 is a tie only when it is exact
\* in binary, so the float and the fraction round alike.)
OneDecimal(total, n) ==
    LET q == (10 * total) \div n
        r == (10 * total) % n
    IN  IF 2 * r < n THEN q
        ELSE IF 2 * r > n THEN q + 1
        ELSE IF q % 2 = 0 THEN q ELSE q + 1

\* crop_data['cold storage location'].value_counts().head(3), as the set of
\* <<facility, count>> (at most three facilities occur in the model).
TopLocs(rows) ==
    LET names == {rows[i].storage.v : i \in {j \in 1..Len(rows) : ~rows[j].storage.isna}}
    IN  {<<s, Cardinality({i \in 1..Len(rows) :
                    ~rows[i].storage.isna /\ rows[i].storage.v = s})>> : s \in names}

\* What one expander shows.
Guideline(d, crop_name) ==
    LET crop_data == CropData(d, crop_name)
    IN  IF crop_data # <<>>
        THEN [kind |-> "metrics",
              avg_temp     |-> OneDecimal(SumOf(crop_data, "temp"), Len(crop_data)),
              avg_spoilage |-> OneDecimal(SumOf(crop_data, "spoil"), Len(crop_data)),
              top_locs     |-> TopLocs(crop_data)]
        ELSE [kind |-> "warning", text |-> "No data available"]

-----------------------------------------------------------------------------
\* The tables that are loaded.

Row(l, c, s, k, t, te, sp) ==
    [loc |-> l, crop |-> c, storage |-> s, km |-> k, cost |-> t, temp |-> te, spoil |-> sp]

Jos   == Val(<<" ","J","o","s">>)
JOS   == Val(<<"J","O","S">>)
JoDot == Val(<<"j","o",".">>)
Yam   == Val(<<" ","y","A","M">>)
Yams  == Val(<<"Y","a","m","s">>)
Okra  == Val(<<"o","k","R","A"," ">>)

RowPool ==
    { Row(Jos,     Yam,     Val("A"), Val(25), Val(3791), Val(4), Val(6)),
      Row(Jos,     Yam,     Val("B"), Val(25), Val(3791), Val(7), NaNNum),
      Row(Jos,     Yam,     Val("A"), Val(4),  NaNNum,    Val(7), Val(9)),
      Row(Jos,     Yams,    Val("B"), Val(4),  Val(3791), Val(4), Val(6)),
      Row(JoDot,   Yams,    Val("A"), Val(25), Val(3791), Val(7), Val(9)),
      Row(Jos,     Okra,    Val("A"), Val(4),  Val(3791), NaNNum, Val(6)),
      Row(JOS,     Yam,     NaNText,  NaNNum,  Val(3791), Val(4), Val(6)),
      Row(NaNText, Yam,     Val("B"), Val(4),  Val(3791), Val(4), Val(6)),
      Row(Jos,     NaNText, Val("B"), Val(4),  Val(3791), Val(4), Val(6)) }

AllColumns ==
    {required_cols[i] : i \in 1..Len(required_cols)} \cup {KmCol, CostCol}

ColumnPool ==
    { AllColumns,
      AllColumns \ {<<"optimal storage temp(degree c)">>},
      (AllColumns \ {<<"Crop">>}) \cup {<<" ", "Crop">>},
      (AllColumns \ {KmCol}) \cup {KmCol \o <<" ">>} }

Tables ==
    {[columns |-> cols, rows |-> rows] :
        cols \in ColumnPool,
        rows \in UNION {[1..n -> RowPool] : n \in 0..MaxRows}}

-----------------------------------------------------------------------------
\* The script, run top to bottom; Streamlit runs it again on every
\* interaction.

Init ==
    /\ csv \in Tables
    /\ df = csv
    /\ pc = "start"
    /\ farm_location = None
    /\ crop = None
    /\ rec = None
    /\ out = <<>>
    /\ guide = <<>>
    /\ sortTie \in {"first", "last"}

\* Lines 42-43: validate_data(df), and st.stop() when it returns False.
Validate ==
    /\ pc = "start"
    /\ LET checked == validate_data(df)
       IN  /\ out' = out \o checked.msgs
           /\ pc' = IF checked.ok THEN "validated" ELSE "stopped"
    /\ UNCHANGED <<csv, df, farm_location, crop, rec, guide, sortTie>>

\* Lines 46-48.
CleanRows ==
    /\ pc = "validated"
    /\ df' = [df EXCEPT !.rows = clean_rows(df.rows)]
    /\ pc' = "rows_cleaned"
    /\ UNCHANGED <<csv, farm_location, crop, rec, out, guide, sortTie>>

\* Line 51.
CleanColumns ==
    /\ pc = "rows_cleaned"
    /\ df' = [df EXCEPT !.columns = clean_columns(df.columns)]
    /\ pc' = "ready"
    /\ UNCHANGED <<csv, farm_location, crop, rec, out, guide, sortTie>>

\* The options of the location selectbox (line 140); None when there are none.
LocationOptions(d) ==
    IF d.rows = <<>> THEN {None}
    ELSE {Str(d.rows[i].loc.v) : i \in 1..Len(d.rows)}

CropOptions == {Str(focus_crops[i]) : i \in 1..Len(focus_crops)}

\* Lines 138-156 with the button pressed.
Generate ==
    /\ pc = "ready"
    /\ \E l \in LocationOptions(df), c \in CropOptions :
          LET got == get_recommendations(df, l, c, sortTie)
          IN  /\ farm_location' = l
              /\ crop' = c
              /\ rec' = got.ret
              /\ out' = out \o got.msgs \o Render(got.ret)
    /\ pc' = "guidelines"
    /\ UNCHANGED <<csv, df, guide, sortTie>>

\* Lines 138-152 with the button not pressed: the handler's body is skipped.
\* (Only the handler reads the two selections, so they are not recorded.)
NoClick ==
    /\ pc = "ready"
    /\ pc' = "guidelines"
    /\ UNCHANGED <<csv, df, farm_location, crop, rec, out, guide, sortTie>>

\* Lines 200-234: one expander per focus crop.
CropGuidelines ==
    /\ pc = "guidelines"
    /\ guide' = [i \in 1..Len(focus_crops) |-> Guideline(df, focus_crops[i])]
    /\ pc' = "done"
    /\ UNCHANGED <<csv, df, farm_location, crop, rec, out, sortTie>>

\* The next run of the script: load_data() returns the cached table again.
Rerun ==
    /\ pc \in {"stopped", "done"}
    /\ df' = csv
    /\ pc' = "start"
    /\ farm_location' = None
    /\ crop' = None
    /\ rec' = None
    /\ out' = <<>>
    /\ guide' = <<>>
    /\ UNCHANGED <<csv, sortTie>>

Next ==
    \/ Validate
    \/ CleanRows
    \/ CleanColumns
    \/ Generate
    \/ NoClick
    \/ CropGuidelines
    \/ Rerun

Spec == Init /\ [][Next]_vars

-----------------------------------------------------------------------------
\* Vocabulary of the properties.

\* get_recommendations has been called in this run, with farm_location and
\* crop as its arguments, and rec is what it returned.
Asked == pc \in {"guidelines", "done"} /\ crop # None

\* p occurs in s as a substring.
IsSubstring(s, p) ==
    \E k \in 0..(Len(s) - Len(p)) : SubSeq(s, k + 1, k + Len(p)) = p

\* t is s without its leading and trailing blanks.
IsTrimOf(t, s) ==
    /\ t = <<>> \/ (t[1] # " " /\ t[Len(t)] # " ")
    /\ \E a \in 0..Len(s) :
          /\ a + Len(t) <= Len(s)
          /\ SubSeq(s, a + 1, a + Len(t)) = t
          /\ \A j \in (1..a) \cup ((a + Len(t) + 1)..Len(s)) : s[j] = " "

\* The query, trimmed and lower-cased.
QueryLoc  == lower(strip(farm_location.v))
QueryCrop == lower(strip(crop.v))

\* Rows equal to the query on both keys (case-insensitive, trimmed).
ExactMatches ==
    {i \in 1..Len(df.rows) :
        /\ lower(strip(df.rows[i].loc.v)) = QueryLoc
        /\ lower(strip(df.rows[i].crop.v)) = QueryCrop}

\* Rows that contain the query as a substring on both keys.
SubstringMatches ==
    {i \in 1..Len(df.rows) :
        /\ IsSubstring(lower(strip(df.rows[i].loc.v)), QueryLoc)
        /\ IsSubstring(lower(strip(df.rows[i].crop.v)), QueryCrop)}

\* Some row of S has a distance, so that S has a least distance.
HasDistance(S) == \E i \in S : ~df.rows[i].km.isna

\* Row i has the least distance among the rows S.
IsNearestOf(i, S) ==
    /\ i \in S
    /\ ~df.rows[i].km.isna
    /\ \A j \in S : ~df.rows[j].km.isna => df.rows[i].km.v <= df.rows[j].km.v

\* rec is a match that was read off row i.
MatchOfRow(i) ==
    /\ rec.kind = "dict"
    /\ rec.storage_name = df.rows[i].storage
    /\ rec.storage_km = df.rows[i].km
    /\ rec.optimal_temp = df.rows[i].temp
    /\ rec.spoilage_rate = df.rows[i].spoil

-----------------------------------------------------------------------------
\* C1: whenever some row equals the query on both keys, get_recommendations
\* returns a match whose storage_km is the least 'farm to cold storage(km)'
\* among exactly those rows (rows matching only by substring play no part).
C1_ExactMinimum ==
    (Asked /\ farm_location # None /\ HasDistance(ExactMatches))
        => \E i \in ExactMatches : IsNearestOf(i, ExactMatches) /\ MatchOfRow(i)

\* C2: when no row equals the query but some row contains it on both keys,
\* get_recommendations returns a match taken from those rows, the one with the
\* least distance among them.
C2_FallbackMinimum ==
    (Asked /\ farm_location # None /\ ExactMatches = {} /\ HasDistance(SubstringMatches))
        => \E i \in SubstringMatches : IsNearestOf(i, SubstringMatches) /\ MatchOfRow(i)

\* C3: when no row contains the query as a substring on both keys,
\* get_recommendations returns the no-match value.
C3_NoOverlapNoMatch ==
    (Asked /\ (farm_location = None \/ SubstringMatches = {})) => rec = None

-----------------------------------------------------------------------------
\* The number that a sequence of three-digit groups writes.
RECURSIVE GroupsValue(_)
GroupsValue(g) ==
    IF g = <<>> THEN 0
    ELSE 1000 * GroupsValue(SubSeq(g, 1, Len(g) - 1)) + g[Len(g)]

\* rec is a match read off row i, cost included.
CostedMatchOfRow(i) ==
    /\ MatchOfRow(i)
    /\ ~df.rows[i].cost.isna /\ ~df.rows[i].km.isna

\* C5 (as amended): the transport cost of a match is the product of the
\* selected row's cost per km and its distance with the fraction cut off
\* (int() truncates); for cost 3791 and distance 12.5 it is 47387.
C5_TransportCostTruncated ==
    (Asked /\ rec.kind = "dict")
        => /\ \A j \in 2..Len(rec.transport_cost.digits) :
                  rec.transport_cost.digits[j] \in 0..999
           /\ \E i \in 1..Len(df.rows) :
                 /\ CostedMatchOfRow(i)
                 /\ LET total == GroupsValue(rec.transport_cost.digits)
                        halves == df.rows[i].cost.v * df.rows[i].km.v
                    IN  /\ 2 * total <= halves /\ halves < 2 * total + 2
                        /\ (df.rows[i].cost.v = 3791 /\ df.rows[i].km.v = 25)
                               => total = 47387

\* C5 as stated: the product rounded to the nearest integer, 47388 for cost
\* 3791 and distance 12.5.
C5_TransportCostRounded ==
    (Asked /\ rec.kind = "dict")
        => \E i \in 1..Len(df.rows) :
              /\ CostedMatchOfRow(i)
              /\ LET total == GroupsValue(rec.transport_cost.digits)
                     halves == df.rows[i].cost.v * df.rows[i].km.v
                 IN  /\ 2 * total - 1 <= halves /\ halves <= 2 * total + 1
                     /\ (df.rows[i].cost.v = 3791 /\ df.rows[i].km.v = 25)
                            => total = 47388

\* A match read off a row with cost 3791 at 12.5 km.
C5_Witness ==
    /\ Asked /\ rec.kind = "dict"
    /\ rec.storage_km = Val(25)
    /\ \E i \in 1..Len(df.rows) : CostedMatchOfRow(i) /\ df.rows[i].cost.v = 3791

\* The call of this run raised inside the try block.
Failed == Asked /\ Raises(df, farm_location, crop, sortTie)

\* The call of this run found no candidate row.
NoMatch ==
    /\ Asked /\ ~Failed
    /\ Results(df, farm_location.v, crop.v) = {}

ErrorInRecommendation ==
    [kind |-> "error", text |-> "Error in recommendation", arg |-> <<>>]
NoRecommendationsFound ==
    [kind |-> "error", text |-> "No recommendations found", arg |-> <<>>]

\* C6 (as amended): an exception inside get_recommendations is caught and
\* reported by get_recommendations itself, which then returns None, the value
\* it also returns when there is no candidate; the caller renders the same
\* "No recommendations found" for both, and only the extra error message tells
\* the failure from the no-match.
C6_FailureReturnsNone ==
    /\ Failed => /\ rec = None
                 /\ Len(out) >= 2
                 /\ out[Len(out) - 1] = ErrorInRecommendation
                 /\ out[Len(out)] = NoRecommendationsFound
    /\ NoMatch => /\ rec = None
                  /\ Len(out) >= 1
                  /\ out[Len(out)] = NoRecommendationsFound
                  /\ \A j \in 1..Len(out) : out[j] # ErrorInRecommendation

\* C6 as stated: the value returned on failure differs from the value
\* returned when the candidate set is empty.
C6_FailureDistinctFromNoMatch ==
    Failed => rec # None

\* A call that raised.
C6_Witness == Failed /\ farm_location # None

-----------------------------------------------------------------------------
RequiredSet == {required_cols[i] : i \in 1..Len(required_cols)}
AbsentRequired == {c \in RequiredSet : c \notin csv.columns}

\* C7: when the loaded table lacks a required column, validate_data reports
\* exactly the absent required columns and the run halts: no cleaning, no
\* query and no summary happens in it.
C7_MissingColumnsHalt ==
    AbsentRequired # {}
        => /\ pc \in {"start", "stopped"}
           /\ df = csv
           /\ rec = None /\ crop = None /\ guide = <<>>
           /\ pc = "stopped"
                => /\ Len(out) = 1
                   /\ out[1].kind = "error" /\ out[1].text = "Missing columns"
                   /\ {out[1].arg[j] : j \in 1..Len(out[1].arg)} = AbsentRequired
                   /\ Len(out[1].arg) = Cardinality(AbsentRequired)

\* The run has halted on a table that lacks only the temperature column.
C7_Witness ==
    /\ pc = "stopped"
    /\ AbsentRequired = {<<"optimal storage temp(degree c)">>}

\* The k-th (in order) of the positions S.
Nth(S, k) == CHOOSE i \in S : Cardinality({j \in S : j <= i}) = k

\* x is title-cased.
IsTitled(x) ==
    \A j \in 1..Len(x) :
        IF j = 1 \/ ~IsCased(x[j-1]) THEN ~IsLower(x[j]) ELSE ~IsUpper(x[j])

\* x and y are the same up to the case of their letters.
SameLetters(x, y) ==
    /\ Len(x) = Len(y)
    /\ \A j \in 1..Len(x) : LowerChar(x[j]) = LowerChar(y[j])

\* C8: from the cleaning step on, the rows are the loaded rows that have both
\* a farm location and a crop, in their original order; the crop is trimmed
\* and title-cased, the farm location trimmed with its case unchanged, the
\* other cells untouched; and nulls in other required columns do not stop the
\* run.
C8_CleanedRows ==
    /\ pc \in {"rows_cleaned", "ready", "guidelines", "done"}
         => LET keep == {k \in 1..Len(csv.rows) :
                            ~csv.rows[k].loc.isna /\ ~csv.rows[k].crop.isna}
            IN  /\ Len(df.rows) = Cardinality(keep)
                /\ \A i \in 1..Len(df.rows) :
                      LET new == df.rows[i]
                          old == csv.rows[Nth(keep, i)]
                      IN  /\ ~new.loc.isna /\ ~new.crop.isna
                          /\ IsTrimOf(new.loc.v, old.loc.v)
                          /\ IsTitled(new.crop.v)
                          /\ \E t \in {SubSeq(old.crop.v, a, b) :
                                         a \in 1..(Len(old.crop.v) + 1),
                                         b \in 0..Len(old.crop.v)} :
                                IsTrimOf(t, old.crop.v) /\ SameLetters(t, new.crop.v)
                          /\ new.storage = old.storage /\ new.km = old.km
                          /\ new.cost = old.cost /\ new.temp = old.temp
                          /\ new.spoil = old.spoil
    /\ AbsentRequired = {} => pc # "stopped"

\* Queries can be served on a table of which a row was dropped, a row was
\* kept, and a kept row has a null in another required column.
C8_Witness ==
    /\ pc = "ready"
    /\ 0 < Len(df.rows) /\ Len(df.rows) < Len(csv.rows)
    /\ \E i \in 1..Len(df.rows) :
          /\ df.rows[i].temp.isna \/ df.rows[i].spoil.isna
          /\ df.rows[i].crop # csv.rows[Nth({k \in 1..Len(csv.rows) :
                 ~csv.rows[k].loc.isna /\ ~csv.rows[k].crop.isna}, i)].crop

-----------------------------------------------------------------------------
\* The rows of a crop that have both a temperature and a spoilage rate.
SummaryRows(crop_name) ==
    {k \in 1..Len(df.rows) :
        /\ lower(strip(df.rows[k].crop.v)) = lower(crop_name)
        /\ ~df.rows[k].temp.isna /\ ~df.rows[k].spoil.isna}

RECURSIVE SumOver(_, _)
SumOver(S, column) ==
    IF S = {} THEN 0
    ELSE LET k == CHOOSE x \in S : TRUE
         IN  df.rows[k][column].v + SumOver(S \ {k}, column)

\* shown (in tenths) is within half a tenth of total / n.
IsMeanToOneDecimal(shown, total, n) ==
    /\ 2 * (10 * total - shown * n) <= n
    /\ 2 * (shown * n - 10 * total) <= n

\* C9: a focus crop without a row that has both a temperature and a spoilage
\* rate gets the explicit no-data outcome and no number; otherwise the two
\* means shown are the means over exactly the rows that have both.
C9_CropSummary ==
    pc = "done"
        => \A i \in 1..Len(focus_crops) :
              LET S == SummaryRows(focus_crops[i])
              IN  IF S = {}
                  THEN guide[i] = [kind |-> "warning", text |-> "No data available"]
                  ELSE /\ guide[i].kind = "metrics"
                       /\ IsMeanToOneDecimal(guide[i].avg_temp,
                                             SumOver(S, "temp"), Cardinality(S))
                       /\ IsMeanToOneDecimal(guide[i].avg_spoilage,
                                             SumOver(S, "spoil"), Cardinality(S))

\* A summary with numbers for one crop, and the no-data outcome for a crop
\* that has a row, but none with both values.
C9_Witness ==
    /\ pc = "done"
    /\ \E i \in 1..Len(focus_crops) : guide[i].kind = "metrics"
    /\ \E i \in 1..Len(focus_crops) :
          /\ guide[i].kind = "warning"
          /\ \E k \in 1..Len(df.rows) :
                lower(strip(df.rows[k].crop.v)) = lower(focus_crops[i])

-----------------------------------------------------------------------------
\* Required columns that the loaded table has only under a padded header.
PaddedRequired ==
    {c \in AbsentRequired : \E h \in csv.columns : strip(h) = c}

\* C10: the headers are trimmed only after the required-column check and the
\* null-row drop; a table that has a required column only under a padded
\* header is rejected, the column reported missing, and the run halts with
\* the headers as loaded.
C10_HeadersTrimmedLast ==
    /\ pc \in {"start", "validated", "rows_cleaned", "stopped"}
         => df.columns = csv.columns
    /\ pc \in {"ready", "guidelines", "done"}
         => /\ \A h \in df.columns : IsTrimOf(h, h)
            /\ \A h \in csv.columns : \E t \in df.columns : IsTrimOf(t, h)
    /\ PaddedRequired # {}
         => /\ pc \in {"start", "stopped"}
            /\ pc = "stopped"
                 => \A c \in PaddedRequired :
                       \E j \in 1..Len(out[1].arg) : out[1].arg[j] = c

\* The run has halted on a table whose 'Crop' header is padded.
C10_Witness ==
    /\ pc = "stopped"
    /\ <<"Crop">> \in PaddedRequired

====
